---- MODULE Spec2Model ----
(***************************************************************************)
(* Ed25519PrivateKey (src/src/crypto/Ed25519PrivateKey.ts) and the retry   *)
(* loop of HederaExecutable.execute (src/src/HederaExecutable.js).         *)
(*                                                                         *)
(* Byte arrays are sequences of 0..255, strings are sequences of           *)
(* one-character strings.  A Uint8Array handed to the caller is a record   *)
(* [view, data]: view = 0 is a buffer of its own, view = i is a window on  *)
(* the first bytes of keys[i]._keyData (what subarray() would return).     *)
(***************************************************************************)
EXTENDS Integers, Sequences, FiniteSets

VARIABLES keys, prov, last, pc, attempt, advanced, response, returned, log

keyVars == <<keys, prov, last>>
execVars == <<pc, attempt, advanced, response, returned, log>>
vars == <<keys, prov, last, pc, attempt, advanced, response, returned, log>>

\* ---------------------------------------------------------------- bounds
MaxKeys == 2
MaxAttempt == 3

\* ------------------------------------------------------------- constants
SeedLength == 32
SecretKeyLength == 64
HardenedBit == 128
BaseDelay == 250

\* what the last call on a key was given and what it returned
Last(op, status, key, src, rt, kp, arg, out) ==
    [op |-> op, status |-> status, key |-> key, src |-> src, rt |-> rt,
     kp |-> kp, arg |-> arg, out |-> out]

Rep(x, n) == [i \in 1..n |-> x]

Null == [has |-> FALSE, val |-> <<>>]
Some(v) == [has |-> TRUE, val |-> v]

\* ------------------------------------------------------------ hex codec
HexDigits == <<"0","1","2","3","4","5","6","7","8","9","a","b","c","d","e","f">>

HexVal(c) ==
    CASE c = "0" -> 0 [] c = "1" -> 1 [] c = "2" -> 2 [] c = "3" -> 3
      [] c = "4" -> 4 [] c = "5" -> 5 [] c = "6" -> 6 [] c = "7" -> 7
      [] c = "8" -> 8 [] c = "9" -> 9
      [] c = "a" -> 10 [] c = "b" -> 11 [] c = "c" -> 12
      [] c = "d" -> 13 [] c = "e" -> 14 [] c = "f" -> 15
      [] c = "A" -> 10 [] c = "B" -> 11 [] c = "C" -> 12
      [] c = "D" -> 13 [] c = "E" -> 14 [] c = "F" -> 15

decodeHex(s) ==
    [i \in 1..(Len(s) \div 2) |-> HexVal(s[2 * i - 1]) * 16 + HexVal(s[2 * i])]

encodeHex(b) ==
    [i \in 1..(2 * Len(b)) |->
        IF i % 2 = 1 THEN HexDigits[(b[(i + 1) \div 2] \div 16) + 1]
                     ELSE HexDigits[(b[i \div 2] % 16) + 1]]

ed25519PrivKeyPrefix ==
    <<"3","0","2","e","0","2","0","1","0","0","3","0","0","5","0","6",
      "0","3","2","b","6","5","7","0","0","4","2","2","0","4","2","0">>

startsWith(s, p) == Len(s) >= Len(p) /\ SubSeq(s, 1, Len(p)) = p

\* ------------------------------------------------- trusted primitives
\* Ed25519 public key of a seed: a fixed function of the 32 seed bytes.
PublicOfSeed(seed) == [i \in 1..Len(seed) |-> (7 * seed[i] + i) % 256]

\* nacl.sign.keyPair.fromSeed: secretKey = seed || public key.
naclFromSeed(seed) ==
    IF Len(seed) # SeedLength
    THEN [thrown |-> TRUE, secretKey |-> <<>>, publicKey |-> <<>>]
    ELSE [thrown |-> FALSE,
          secretKey |-> seed \o PublicOfSeed(seed),
          publicKey |-> PublicOfSeed(seed)]

\* nacl.sign.keyPair.fromSecretKey: copies the 64 bytes, public key = last 32.
naclFromSecretKey(sk) ==
    IF Len(sk) # SecretKeyLength
    THEN [thrown |-> TRUE, secretKey |-> <<>>, publicKey |-> <<>>]
    ELSE [thrown |-> FALSE,
          secretKey |-> sk,
          publicKey |-> SubSeq(sk, SeedLength + 1, SecretKeyLength)]

\* HMAC-SHA512(key, message): 64 bytes.  Byte n < 5 of the digest carries the
\* byte of the message that is n-1 places from its end, through a bijection
\* of 0..255, so the left half is injective on the last four message bytes.
hmacSha512(key, msg) ==
    [n \in 1..64 |->
        (key[((n - 1) % Len(key)) + 1]
         + 3 * msg[((n - 1) % Len(msg)) + 1]
         + 5 * msg[Len(msg) - ((n - 1) % 4)]
         + n) % 256]

\* pbkdf2(password, salt, 2048, 64, "sha512") on a mnemonic and "mnemonic"+passphrase
pbkdf2(mnemonic, passphrase) ==
    [n \in 1..64 |-> (17 * mnemonic + 29 * passphrase + n) % 256]

\* ------------------------------------------------------------ key object
NoKey == [publicKey |-> <<>>, keyData |-> <<>>, asStringRaw |-> Null, chainCode |-> Null]

Thrown(err, kp) == [status |-> err, key |-> NoKey, kp |-> kp]

\* private constructor({ privateKey, publicKey })
Constructor(privateKey, publicKey, kp) ==
    IF Len(privateKey) # SecretKeyLength
    THEN Thrown("BadKeyError", kp)
    ELSE [status |-> "ok",
          key |-> [publicKey |-> publicKey, keyData |-> privateKey,
                   asStringRaw |-> Null, chainCode |-> Null],
          kp |-> kp]

fromBytes_acceptAny(bytes) ==
    LET keypair == IF Len(bytes) = SecretKeyLength THEN naclFromSecretKey(bytes)
                   ELSE naclFromSeed(bytes)
    IN IF keypair.thrown THEN Thrown("Error", TRUE)
       ELSE Constructor(keypair.secretKey, keypair.publicKey, TRUE)

fromBytes(bytes) ==
    CASE Len(bytes) = 32 ->
            LET keypair == naclFromSeed(bytes)
            IN Constructor(keypair.secretKey, keypair.publicKey, TRUE)
      [] Len(bytes) = 64 ->
            LET keypair == naclFromSecretKey(bytes)
            IN Constructor(keypair.secretKey, keypair.publicKey, TRUE)
      [] OTHER -> Thrown("BadKeyError", FALSE)

WithString(r, s) ==
    IF r.status = "ok" THEN [r EXCEPT !.key.asStringRaw = Some(s)] ELSE r

fromString_noPrefixCheck(keyStr) ==
    CASE Len(keyStr) = 64 \/ Len(keyStr) = 128 ->
            WithString(fromBytes(decodeHex(keyStr)), keyStr)
      [] Len(keyStr) = 96 ->
            LET rawStr == SubSeq(keyStr, 33, Len(keyStr))
            IN WithString(fromBytes(decodeHex(rawStr)), rawStr)
      [] OTHER -> Thrown("BadKeyError", FALSE)

fromString(keyStr) ==
    CASE Len(keyStr) = 64 \/ Len(keyStr) = 128 ->
            WithString(fromBytes(decodeHex(keyStr)), keyStr)
      [] Len(keyStr) = 96 /\ startsWith(keyStr, ed25519PrivKeyPrefix) ->
            LET rawStr == SubSeq(keyStr, 33, Len(keyStr))
            IN WithString(fromBytes(decodeHex(rawStr)), rawStr)
      [] OTHER -> Thrown("BadKeyError", FALSE)

\* ------------------------------------------------------------ derivation
\* An unsigned 32-bit index is held as [hi, lo]: bit 31 and the low 31 bits
\* (TLC's integers are 32-bit signed), index = hi * 2^31 + lo.
Index(hi, lo) == [hi |-> hi, lo |-> lo]

\* DataView.setUint32(33, index, false): the four bytes, most significant first
BigEndian32(n) ==
    <<HardenedBit * n.hi + (n.lo \div 16777216), (n.lo \div 65536) % 256,
      (n.lo \div 256) % 256, n.lo % 256>>

\* input[33] |= 128 on the big-endian index: the hardening bit is OR-ed in.
Harden(bytes) ==
    [bytes EXCEPT ![1] = IF bytes[1] >= HardenedBit THEN bytes[1]
                         ELSE bytes[1] + HardenedBit]

deriveChildKey(parentKey, chainCode, index) ==
    LET input == <<0>> \o parentKey \o Harden(BigEndian32(index))
        digest == hmacSha512(chainCode, input)
    IN [chainCode |-> SubSeq(digest, 33, 64), keyBytes |-> SubSeq(digest, 1, 32)]

WithChain(r, cc) ==
    IF r.status = "ok" THEN [r EXCEPT !.key.chainCode = Some(cc)] ELSE r

\* "ed25519 seed" in ASCII
Ed25519SeedKey == <<101, 100, 50, 53, 53, 49, 57, 32, 115, 101, 101, 100>>

MnemonicPath == <<Index(0, 44), Index(0, 3030), Index(0, 0), Index(0, 0)>>

RECURSIVE WalkPath(_, _)
WalkPath(node, path) ==
    IF path = <<>> THEN node
    ELSE WalkPath(deriveChildKey(node.keyBytes, node.chainCode, Head(path)), Tail(path))

fromMnemonic(mnemonic, passphrase) ==
    LET seed == pbkdf2(mnemonic, passphrase)
        digest == hmacSha512(Ed25519SeedKey, seed)
        leaf == WalkPath([chainCode |-> SubSeq(digest, 33, 64),
                          keyBytes |-> SubSeq(digest, 1, 32)], MnemonicPath)
    IN WithChain(fromBytes(leaf.keyBytes), leaf.chainCode)

generate(random) == fromBytes(random)

supportsDerivation(k) == k.chainCode.has

derive_withoutChainCode(k, index) ==
    IF ~k.chainCode.has THEN Thrown("Error", FALSE)
    ELSE fromBytes(deriveChildKey(SubSeq(k.keyData, 1, 32), k.chainCode.val, index).keyBytes)

derive_unchecked(k, index) ==
    LET cc == IF k.chainCode.has THEN k.chainCode.val ELSE Rep(0, 32)
        child == deriveChildKey(SubSeq(k.keyData, 1, 32), cc, index)
    IN WithChain(fromBytes(child.keyBytes), child.chainCode)

derive_ignoresIndex(k, index) ==
    IF ~k.chainCode.has THEN Thrown("Error", FALSE)
    ELSE LET child == deriveChildKey(SubSeq(k.keyData, 1, 32), k.chainCode.val, Index(0, 0))
         IN WithChain(fromBytes(child.keyBytes), child.chainCode)

derive(k, index) ==
    IF ~k.chainCode.has THEN Thrown("Error", FALSE)
    ELSE LET child == deriveChildKey(SubSeq(k.keyData, 1, 32), k.chainCode.val, index)
         IN WithChain(fromBytes(child.keyBytes), child.chainCode)

\* -------------------------------------------------------------- encoding
\* subarray(0, 32): a window on the key's own buffer
toBytes_subarray(i) == [view |-> i, data |-> <<>>]

\* slice(0, 32): a copy
toBytes(i) == [view |-> 0, data |-> SubSeq(keys[i].keyData, 1, 32)]

\* what a returned Uint8Array reads as
BufRead(buf) ==
    IF buf.view = 0 THEN buf.data ELSE SubSeq(keys[buf.view].keyData, 1, 32)

toString(k, raw) ==
    LET cached == IF k.asStringRaw.has THEN k.asStringRaw.val
                  ELSE encodeHex(SubSeq(k.keyData, 1, 32))
    IN [key |-> [k EXCEPT !.asStringRaw = Some(cached)],
        out |-> (IF raw THEN <<>> ELSE ed25519PrivKeyPrefix) \o cached]

\* -------------------------------------------------------------- keystore
KdfKey(passphrase) == (31 * passphrase + 7) % 256

KeystoreMac(kdfKey, ciphertext) == <<(3 * kdfKey + 1) % 256, Len(ciphertext)>>

createKeystore(keyBytes, passphrase) ==
    LET encrypted == [i \in 1..Len(keyBytes) |-> (keyBytes[i] + KdfKey(passphrase)) % 256]
    IN [wellFormed |-> TRUE, cipher |-> encrypted,
        mac |-> KeystoreMac(KdfKey(passphrase), encrypted)]

MalformedKeystore == [wellFormed |-> FALSE, cipher |-> <<>>, mac |-> <<>>]

loadKeystore(keystore, passphrase) ==
    LET fail(e) == [status |-> e, publicKey |-> <<>>, privateKey |-> <<>>]
    IN IF ~keystore.wellFormed THEN fail("BadKeyError")
       ELSE IF KeystoreMac(KdfKey(passphrase), keystore.cipher) # keystore.mac
       THEN fail("KeyMismatchError")
       ELSE LET plain == [i \in 1..Len(keystore.cipher) |->
                             (keystore.cipher[i] + 256 - KdfKey(passphrase)) % 256]
                pair == naclFromSecretKey(plain)
            IN IF pair.thrown THEN fail("Error")
               ELSE [status |-> "ok", publicKey |-> pair.publicKey,
                     privateKey |-> pair.secretKey]

fromKeystore(keystore, passphrase) ==
    LET pair == loadKeystore(keystore, passphrase)
    IN IF pair.status # "ok" THEN Thrown(pair.status, FALSE)
       ELSE Constructor(pair.privateKey, pair.publicKey, TRUE)

toKeystore_seedOnly(k, passphrase) == createKeystore(SubSeq(k.keyData, 1, 32), passphrase)

toKeystore(k, passphrase) == createKeystore(k.keyData, passphrase)

\* ---------------------------------------------------------------- inputs
FillByte == 171
ByteLengths == {31, 32, 33, 64, 65}
BytesInputs == {Rep(FillByte, n) : n \in ByteLengths}

StringLengths == {63, 64, 65, 96, 128, 129}
BodyLengths == {63, 64, 65}
WrongPrefix == [ed25519PrivKeyPrefix EXCEPT ![32] = "1"]
StringInputs ==
    {Rep("a", n) : n \in StringLengths}
    \cup {Rep("B", 64), Rep("B", 128)}
    \cup {ed25519PrivKeyPrefix \o Rep("a", n) : n \in BodyLengths}
    \cup {WrongPrefix \o Rep("a", 64)}

RandomPool == {Rep(7, 32)}
Mnemonics == {1}
Passphrases == {1, 2}
MnemonicPassphrases == {1}
Indices == {Index(0, 0), Index(0, 1), Index(1, 0), Index(1, 1), Index(1, 2147483647)}
WritePositions == {1, 32}
WrittenByte == 90

\* ------------------------------------------------------------ operations
Init ==
    /\ keys = <<>>
    /\ prov = <<>>
    /\ last = Last("none", "ok", 0, 0, "", FALSE, <<>>, <<>>)
    /\ pc = "idle"
    /\ attempt = 0
    /\ advanced = 0
    /\ response = "none"
    /\ returned = "none"
    /\ log = <<>>

\* A construction: the key it returns is kept by the caller, who constructs
\* keys until MaxKeys of them are held.
Install(r, op, src, rt, arg, srcDerivable) ==
    /\ Len(keys) < MaxKeys
    /\ keys' = IF r.status = "ok" THEN Append(keys, r.key) ELSE keys
    /\ prov' = IF r.status = "ok"
               THEN Append(prov, [op |-> op, srcDerivable |-> srcDerivable])
               ELSE prov
    /\ last' = Last(op, r.status, IF r.status = "ok" THEN Len(keys) + 1 ELSE 0,
                    src, rt, r.kp, arg, <<>>)
    /\ UNCHANGED execVars

FromBytes ==
    \E b \in BytesInputs : Install(fromBytes(b), "fromBytes", 0, "", b, FALSE)

\* fromBytes(k.toBytes())
FromBytesOfToBytes ==
    /\ last.op = "toBytes"
    /\ Install(fromBytes(BufRead(last.out)), "fromBytes", last.key, "toBytes",
               BufRead(last.out), FALSE)

FromString ==
    \E s \in StringInputs : Install(fromString(s), "fromString", 0, "", s, FALSE)

\* fromString(k.toString(raw))
FromStringOfToString ==
    /\ last.op = "toString"
    /\ Install(fromString(last.out), "fromString", last.key,
               IF last.arg THEN "toStringRaw" ELSE "toString", last.out, FALSE)

FromMnemonic ==
    \E m \in Mnemonics, p \in MnemonicPassphrases :
        Install(fromMnemonic(m, p), "fromMnemonic", 0, "", <<m, p>>, FALSE)

Generate ==
    \E r \in RandomPool : Install(generate(r), "generate", 0, "", <<>>, FALSE)

Derive ==
    \E i \in 1..Len(keys), index \in Indices :
        Install(derive(keys[i], index), "derive", i, "", index,
                supportsDerivation(keys[i]))

\* fromKeystore(await k.toKeystore(p), p2)
FromKeystore ==
    /\ last.op = "toKeystore"
    /\ \E p2 \in Passphrases :
        Install(fromKeystore(last.out, p2), "fromKeystore", last.key, "toKeystore",
                <<last.arg, p2>>, supportsDerivation(keys[last.key]))

FromKeystoreMalformed ==
    \E p2 \in MnemonicPassphrases :
        Install(fromKeystore(MalformedKeystore, p2), "fromKeystore", 0, "", <<0, p2>>, FALSE)

ToBytes ==
    \E i \in 1..Len(keys) :
        /\ last' = Last("toBytes", "ok", i, 0, "", FALSE, <<>>, toBytes(i))
        /\ UNCHANGED <<keys, prov>>
        /\ UNCHANGED execVars

\* the caller writes into the array toBytes() returned
WriteReturned ==
    /\ last.op = "toBytes"
    /\ \E pos \in WritePositions :
        /\ keys' = IF last.out.view = 0 THEN keys
                   ELSE [keys EXCEPT ![last.out.view].keyData[pos] = WrittenByte]
        /\ last' = [last EXCEPT !.op = "write",
                                !.out = IF last.out.view = 0
                                        THEN [last.out EXCEPT !.data[pos] = WrittenByte]
                                        ELSE last.out]
    /\ UNCHANGED prov
    /\ UNCHANGED execVars

ToString ==
    \E i \in 1..Len(keys), raw \in BOOLEAN :
        LET r == toString(keys[i], raw)
        IN /\ keys' = [keys EXCEPT ![i] = r.key]
           /\ last' = Last("toString", "ok", i, 0, "", FALSE, raw, r.out)
           /\ UNCHANGED prov
           /\ UNCHANGED execVars

ToKeystore ==
    \E i \in 1..Len(keys), p \in Passphrases :
        /\ last' = Last("toKeystore", "ok", i, 0, "", FALSE, p, toKeystore(keys[i], p))
        /\ UNCHANGED <<keys, prov>>
        /\ UNCHANGED execVars

Next ==
    \/ FromBytes
    \/ FromBytesOfToBytes
    \/ FromString
    \/ FromStringOfToString
    \/ FromMnemonic
    \/ Generate
    \/ Derive
    \/ FromKeystore
    \/ FromKeystoreMalformed
    \/ ToBytes
    \/ WriteReturned
    \/ ToString
    \/ ToKeystore

Spec == Init /\ [][Next]_vars

\* ------------------------------------------------- HederaExecutable.execute
Statuses == {"Ok", "Busy", "InvalidTransaction"}

shouldRetry(responseStatus) == responseStatus = "Busy"

RECURSIVE Pow2(_)
Pow2(n) == IF n = 0 THEN 1 ELSE 2 * Pow2(n - 1)

\* Math.floor(250 * Math.pow(2, attempt))
Delay(n) == BaseDelay * Pow2(n)

Logged(what, ms) == [attempt |-> attempt, what |-> what, slept |-> ms]

\* execute(client): _onExecute, then the first pass of the loop
Execute ==
    /\ pc = "idle"
    /\ pc' = "try"
    /\ attempt' = 0
    /\ UNCHANGED <<advanced, response, returned, log>>
    /\ UNCHANGED keyVars

\* _makeRequest, _getNodeId, _getNetworkChannel or _getMethod throws
PrepareThrows ==
    /\ pc = "try"
    /\ pc' = "caught"
    /\ UNCHANGED <<attempt, advanced, response, returned, log>>
    /\ UNCHANGED keyVars

\* _advanceRequest(), then method(request) is awaited
Send ==
    /\ pc = "try"
    /\ advanced' = advanced + 1
    /\ pc' = "await"
    /\ UNCHANGED <<attempt, response, returned, log>>
    /\ UNCHANGED keyVars

MethodRejects ==
    /\ pc = "await"
    /\ pc' = "caught"
    /\ UNCHANGED <<attempt, advanced, response, returned, log>>
    /\ UNCHANGED keyVars

\* the response arrives; _mapResponseStatus; if (_shouldRetry) { log; await sleep(delay) }
Receive ==
    /\ pc = "await"
    /\ \E s \in Statuses :
        /\ response' = s
        /\ IF shouldRetry(s)
           THEN /\ log' = Append(log, Logged("Bad response status", Delay(attempt)))
                /\ pc' = "sleepRetry"
           ELSE /\ log' = log
                /\ pc' = "map"
    /\ UNCHANGED <<attempt, advanced, returned>>
    /\ UNCHANGED keyVars

\* sleep(delay) of the retry branch resolves: control falls out of the if
AfterRetrySleep ==
    /\ pc = "sleepRetry"
    /\ pc' = "map"
    /\ UNCHANGED <<attempt, advanced, response, returned, log>>
    /\ UNCHANGED keyVars

\* return this._mapResponse(response, nodeId, request)
Return ==
    /\ pc = "map"
    /\ returned' = response
    /\ pc' = "done"
    /\ UNCHANGED <<attempt, advanced, response, log>>
    /\ UNCHANGED keyVars

MapResponseThrows ==
    /\ pc = "map"
    /\ pc' = "caught"
    /\ UNCHANGED <<attempt, advanced, response, returned, log>>
    /\ UNCHANGED keyVars

\* catch (e) { log; await sleep(delay) }
Catch ==
    /\ pc = "caught"
    /\ log' = Append(log, Logged("Grpc Error", Delay(attempt)))
    /\ pc' = "sleepError"
    /\ UNCHANGED <<attempt, advanced, response, returned>>
    /\ UNCHANGED keyVars

\* attempt += 1 and the next pass of the loop
NextAttempt ==
    /\ pc = "sleepError"
    /\ attempt < MaxAttempt
    /\ attempt' = attempt + 1
    /\ pc' = "try"
    /\ UNCHANGED <<advanced, response, returned, log>>
    /\ UNCHANGED keyVars

NextExec ==
    \/ Execute
    \/ PrepareThrows
    \/ Send
    \/ MethodRejects
    \/ Receive
    \/ AfterRetrySleep
    \/ Return
    \/ MapResponseThrows
    \/ Catch
    \/ NextAttempt

SpecExec == Init /\ [][NextExec]_vars

\* ---------------------------------------------------------------- claims
Seed(i) == BufRead(toBytes(i))

Validated == {"fromBytes", "fromString", "generate", "fromKeystore"}

\* C1: a key rebuilt from k.toBytes() by fromBytes, or from k.toString() by
\* fromString, is built without error and has the same toBytes() as k.
C1_RoundTrip ==
    /\ (last.op = "fromBytes" /\ last.rt = "toBytes")
         => (last.status = "ok" /\ Seed(last.key) = Seed(last.src))
    /\ (last.op = "fromString" /\ last.rt = "toString")
         => (last.status = "ok" /\ Seed(last.key) = Seed(last.src))

\* C2: a key has a chain code exactly when fromMnemonic or derive returned it,
\* derive returns keys only from parents with a chain code, and a key read
\* back from a keystore has none even when the stored key had one.
C2_ChainCodeProvenance ==
    \A i \in 1..Len(keys) :
        /\ supportsDerivation(keys[i]) <=> prov[i].op \in {"fromMnemonic", "derive"}
        /\ prov[i].op = "derive" => prov[i].srcDerivable

C2_Witness ==
    /\ Len(keys) = 2
    /\ prov[1].op = "fromMnemonic" /\ supportsDerivation(keys[1])
    /\ prov[2].op = "fromKeystore" /\ prov[2].srcDerivable
    /\ ~supportsDerivation(keys[2])

\* C3: derive on a key from fromBytes, fromString, generate or fromKeystore
\* throws the unsupported-operation Error for every index and returns no key;
\* no key was ever derived from a parent without a chain code.
C3_NonDerivable ==
    /\ (last.op = "derive" /\ ~supportsDerivation(keys[last.src]))
         => (last.status = "Error" /\ last.key = 0)
    /\ \A i \in 1..Len(keys) :
         /\ prov[i].op \in Validated
              => \A x \in Indices : derive(keys[i], x) = Thrown("Error", FALSE)
         /\ prov[i].op = "derive" => prov[i].srcDerivable

C3_Witness ==
    /\ last.op = "derive"
    /\ last.status = "Error"
    /\ prov[last.src].op \in Validated
    /\ last.arg.hi = 1

\* C4: fromKeystore(toKeystore(k, p), p2) returns a key with k's toBytes()
\* when p2 = p, and throws KeyMismatchError and returns no key otherwise.
C4_KeystoreRoundTrip ==
    (last.op = "fromKeystore" /\ last.rt = "toKeystore")
      => IF last.arg[1] = last.arg[2]
         THEN last.status = "ok" /\ Seed(last.key) = Seed(last.src)
         ELSE last.status = "KeyMismatchError" /\ last.key = 0

C4_Witness ==
    /\ last.op = "fromKeystore" /\ last.rt = "toKeystore"
    /\ last.arg[1] # last.arg[2]
    /\ last.status = "KeyMismatchError"
    /\ Len(keys) = 1

\* C5: every output is an encoding of the 32-byte seed alone, whatever the
\* construction path: toBytes() has 32 bytes, toString(true) is the 64
\* lowercase hex digits of the seed, toString() is the prefix followed by them.
\* (toKeystore hands all 64 bytes of _keyData to createKeystore: that part of
\* the claim fails for every key, and is left out so that the trace shows the
\* string form.)
C5_OutputsAreSeed ==
    /\ last.op = "toBytes" => Len(BufRead(last.out)) = 32
    /\ last.op = "toString"
         => last.out = (IF last.arg THEN <<>> ELSE ed25519PrivKeyPrefix)
                         \o encodeHex(Seed(last.key))

\* C6: fromString throws BadKeyError and returns no key for a length other
\* than 64, 96 and 128 and for 96 characters without the prefix; with the
\* prefix, the 64 characters after it are what is decoded and cached.
C6_FromStringRejects ==
    last.op = "fromString" =>
        LET s == last.arg
            prefixed == Len(s) = 96 /\ startsWith(s, ed25519PrivKeyPrefix)
        IN /\ (Len(s) \notin {64, 96, 128} \/ (Len(s) = 96 /\ ~prefixed))
                => (last.status = "BadKeyError" /\ last.key = 0 /\ ~last.kp)
           /\ prefixed
                => /\ last.status = "ok"
                   /\ keys[last.key].asStringRaw = Some(SubSeq(s, 33, 96))
                   /\ Seed(last.key) = decodeHex(SubSeq(s, 33, 96))

C6_Witness ==
    /\ last.op = "fromString"
    /\ Len(last.arg) = 96
    /\ ~startsWith(last.arg, ed25519PrivKeyPrefix)
    /\ last.status = "BadKeyError"

\* C7: fromBytes throws BadKeyError for a length other than 32 and 64, before
\* any key pair is computed, and returns no key; for 32 and 64 bytes it
\* returns a key without a chain code.
C7_FromBytesRejects ==
    last.op = "fromBytes" =>
        IF Len(last.arg) \notin {32, 64}
        THEN last.status = "BadKeyError" /\ ~last.kp /\ last.key = 0
        ELSE last.status = "ok" /\ ~supportsDerivation(keys[last.key])

C7_Witness ==
    /\ last.op = "fromBytes"
    /\ Len(last.arg) = 33
    /\ last.status = "BadKeyError"

OneStep(i, parent, index) ==
    LET child == deriveChildKey(Seed(parent), keys[parent].chainCode.val, index)
    IN Seed(i) = child.keyBytes /\ keys[i].chainCode = Some(child.chainCode)

\* C8 as stated: the key derive(i) returned differs in toBytes() from
\* derive(j) of the same parent for every other unsigned 32-bit index j.
C8_DistinctForAllIndices ==
    (last.op = "derive" /\ last.status = "ok")
      => /\ OneStep(last.key, last.src, last.arg)
         /\ \A j \in Indices :
              j # last.arg
                => Seed(last.key) # SubSeq(derive(keys[last.src], j).key.keyData, 1, 32)

\* C8 amended: the key derive(i) returned is one hardened child-derivation
\* step from its parent, and differs in toBytes() from derive(j) of the same
\* parent for every index j whose low 31 bits differ from those of i.
C8_DistinctBelowHardeningBit ==
    (last.op = "derive" /\ last.status = "ok")
      => /\ OneStep(last.key, last.src, last.arg)
         /\ \A j \in Indices :
              j.lo # last.arg.lo
                => Seed(last.key) # SubSeq(derive(keys[last.src], j).key.keyData, 1, 32)

C8_Witness ==
    /\ last.op = "derive" /\ last.status = "ok"
    /\ last.arg.hi = 1
    /\ \E j \in Indices : j.hi = 0 /\ j.lo # last.arg.lo

\* C9: no step changes the key data, public key or chain code of a key
\* already returned; the string cache is only filled, once, by toString();
\* toBytes(), a write to the array it returned, toKeystore() and derive()
\* leave every existing key as it was.
C9_KeysImmutable ==
    [][/\ Len(keys') >= Len(keys)
       /\ \A i \in 1..Len(keys) :
            /\ keys'[i].keyData = keys[i].keyData
            /\ keys'[i].publicKey = keys[i].publicKey
            /\ keys'[i].chainCode = keys[i].chainCode
            /\ keys'[i].asStringRaw # keys[i].asStringRaw
                 => (last'.op = "toString" /\ last'.key = i /\ ~keys[i].asStringRaw.has)
       /\ last'.op \in {"toBytes", "write", "toKeystore"} => keys' = keys
       /\ last'.op = "derive" => SubSeq(keys', 1, Len(keys)) = keys]_vars

C9_Witness ==
    /\ last.op = "write"
    /\ BufRead(last.out) # Seed(last.key)
    /\ supportsDerivation(keys[last.key])

\* C10: execute returns the mapped response only of an attempt whose status
\* _shouldRetry refused; an attempt it accepted is retried after the sleep.
C10_ReturnsOnlyUnretried ==
    pc = "done" => ~shouldRetry(returned)

====
